---- MODULE Spec2Model ----
(***************************************************************************)
(* Pegasus DAX4 TransformationCatalog.py: TransformationSite, Container,   *)
(* Transformation and TransformationCatalog as a state machine.            *)
(*                                                                         *)
(* Python values are records tagged with their class (cls), so that        *)
(* isinstance() and "is None" are decided as Python decides them.  A dict  *)
(* with str keys is a function on strings, except the three dicts whose    *)
(* iteration order the code observes (sites, transformations, containers): *)
(* these are insertion-ordered sequences of [k, v] entries.  A raised      *)
(* exception is a result record [exc |-> <class name>].                    *)
(***************************************************************************)
EXTENDS Integers, Sequences, FiniteSets, TLC

VARIABLES trs, tc, last

vars == <<trs, tc, last>>

\* ------------------------------------------------------------------ bounds

\* Number of Transformation objects the client holds.
NumTr == 2

\* Longest argument list passed to add_transformations.
MaxBatch == 2

TrIds == 1..NumTr

\* ----------------------------------------------------------- Python values

None == [cls |-> "NoneType"]

Str(s) == [cls |-> "str", value |-> s]

Bool(b) == [cls |-> "bool", value |-> b]

List(items) == [cls |-> "list", items |-> items]

\* A reference to the Transformation object with identity t.
Ref(t) == [cls |-> "Transformation", id |-> t]

\* An instance attribute that was never assigned; reading it raises AttributeError.
Unset == [cls |-> "<unset attribute>"]

isinstance(v, c) == v.cls = c

Ok(v) == [exc |-> "None", val |-> v]

Raise(e) == [exc |-> e]

\* ------------------------------------------------------------------- enums

PEGASUS_VERSION == "5.0"

TransformationType ==
  { [cls |-> "TransformationType", name |-> "STAGEABLE", value |-> "stageable"],
    [cls |-> "TransformationType", name |-> "INSTALLED", value |-> "installed"] }

ContainerType ==
  { [cls |-> "ContainerType", name |-> "DOCKER", value |-> "docker"],
    [cls |-> "ContainerType", name |-> "SINGULARITY", value |-> "singularity"],
    [cls |-> "ContainerType", name |-> "SHIFTER", value |-> "shifter"] }

\* SiteCatalog.Architecture: the members used here.
Architecture ==
  { [cls |-> "Architecture", name |-> "X86_64", value |-> "x86_64"] }

\* Encoding.FileFormat.
FileFormat ==
  { [cls |-> "FileFormat", name |-> "JSON", value |-> "json"],
    [cls |-> "FileFormat", name |-> "YAML", value |-> "yml"] }

Member(enum, n) == CHOOSE m \in enum : m.name = n

\* enum_member.value
EnumValue(m) == Str(m.value)

\* ------------------------------------------------- insertion-ordered dicts

EmptyDict == <<>>

DictHas(d, k) == \E i \in 1..Len(d) : d[i].k = k

DictGet(d, k) == d[CHOOSE i \in 1..Len(d) : d[i].k = k].v

\* d[k] = v: a new key is appended, an existing key keeps its position.
DictSet(d, k, v) ==
  IF DictHas(d, k)
  THEN [i \in 1..Len(d) |-> IF d[i].k = k THEN [k |-> k, v |-> v] ELSE d[i]]
  ELSE Append(d, [k |-> k, v |-> v])

\* del d[k]
DictDel(d, k) == SelectSeq(d, LAMBDA e : e.k # k)

\* Encoding.filter_out_nones: the entries of a str-keyed dict whose value is not None.
filter_out_nones(d) == [k \in {x \in DOMAIN d : d[x] # None} |-> d[k]]

\* Mixins.ProfileMixin.add_profile on a defaultdict(dict): profiles[ns][key] = value.
add_profile(profiles, ns, key, value) ==
  LET old == IF ns \in DOMAIN profiles THEN profiles[ns] ELSE <<>>
      new == [k \in (DOMAIN old) \cup {key} |-> IF k = key THEN value ELSE old[k]]
  IN [n \in (DOMAIN profiles) \cup {ns} |-> IF n = ns THEN new ELSE profiles[n]]

\* ------------------------------------------------------ TransformationSite

\* TransformationSite.__init__: the constructed object, or the exception raised.
\* arch is assigned only when an Architecture is given.
TransformationSite(name, pfn, transformation_type, arch, os_type, os_release, os_version, glibc, container) ==
  IF ~isinstance(transformation_type, "TransformationType")
  THEN Raise("ValueError")
  ELSE IF arch # None /\ ~isinstance(arch, "Architecture")
  THEN Raise("ValueError")
  ELSE Ok([ cls |-> "TransformationSite",
            name |-> name,
            pfn |-> pfn,
            transformation_type |-> EnumValue(transformation_type),
            arch |-> IF arch # None THEN EnumValue(arch) ELSE Unset,
            os_type |-> os_type,
            os_release |-> os_release,
            os_version |-> os_version,
            glibc |-> glibc,
            container |-> container,
            profiles |-> <<>> ])

\* TransformationSite.__json__: reading self.arch raises AttributeError when the
\* constructor never assigned it.
SiteJson(s) ==
  IF s.arch = Unset
  THEN Raise("AttributeError")
  ELSE Ok(filter_out_nones(
         [ name |-> s.name,
           pfn |-> s.pfn,
           type |-> s.transformation_type,
           arch |-> s.arch,
           glibc |-> s.glibc,
           container |-> s.container,
           profiles |-> IF Cardinality(DOMAIN s.profiles) > 0 THEN s.profiles ELSE None ]
         @@ ("os.type" :> s.os_type)
         @@ ("os.release" :> s.os_release)
         @@ ("os.version" :> s.os_version)))

\* --------------------------------------------------------------- Container

\* Container.__init__
Container(name, container_type, image, mount, image_site) ==
  IF ~isinstance(container_type, "ContainerType")
  THEN Raise("ValueError")
  ELSE Ok([ cls |-> "Container",
            name |-> name,
            container_type |-> EnumValue(container_type),
            image |-> image,
            mount |-> mount,
            image_site |-> image_site,
            profiles |-> <<>> ])

\* Container.__json__
ContainerJson(c) ==
  Ok(filter_out_nones(
       [ name |-> c.name,
         type |-> c.container_type,
         image |-> c.image,
         mount |-> c.mount,
         imageSite |-> c.image_site,
         profiles |-> IF Cardinality(DOMAIN c.profiles) > 0 THEN c.profiles ELSE None ]))

\* ---------------------------------------------------------- Transformation

\* Transformation.__init__
Transformation(name, namespace, version) ==
  [ cls |-> "Transformation",
    name |-> name,
    namespace |-> namespace,
    version |-> version,
    key |-> <<name, namespace, version>>,
    sites |-> EmptyDict,
    requires |-> {},
    profiles |-> <<>>,
    hooks |-> <<>> ]

\* The builtin hash() of None, of a str and of a 3-tuple of those: equal values
\* hash equally, different values may collide.
hash(v) == IF v = None THEN 1 ELSE 2 + Len(v.value)

tuple_hash(k) == (hash(k[1]) * 31 + hash(k[2])) * 31 + hash(k[3])

\* Transformation.__hash__
Transformation__hash__(self) == tuple_hash(self.key)

\* __eq__ over every attribute of the two objects, not the key alone.
Transformation__eq__attributes(self, other) ==
  IF isinstance(other, "Transformation")
  THEN Bool(self = other)
  ELSE [cls |-> "ValueError"]

\* Transformation.__eq__: other is a Transformation object or any other value;
\* for the latter a ValueError instance is returned, not raised.
Transformation__eq__(self, other) ==
  IF isinstance(other, "Transformation")
  THEN Bool(self.key = other.key)
  ELSE [cls |-> "ValueError"]

\* x in s, for a set s of Transformation objects held by identity in heap h:
\* an element with the hash of x that is x or compares equal to x.
SetContains(h, s, x) ==
  \E o \in s :
     /\ Transformation__hash__(h[o]) = Transformation__hash__(h[x])
     /\ (o = x \/ Transformation__eq__(h[o], h[x]) = Bool(TRUE))

\* s.remove(x), under the guard that x is in s.
SetRemove(h, s, x) ==
  s \ { CHOOSE o \in s :
          /\ Transformation__hash__(h[o]) = Transformation__hash__(h[x])
          /\ (o = x \/ Transformation__eq__(h[o], h[x]) = Bool(TRUE)) }

\* What a method call leaves behind: the exception raised ("None" when it
\* returned), the receiver after the call, and the value returned.
Result(exc, self, ret) == [exc |-> exc, self |-> self, ret |-> ret]

\* add_site that hands name and pfn to the constructor in the wrong order.
add_site_swapping_name(self, name, a) ==
  IF DictHas(self.sites, name)
  THEN Result("DuplicateError", self, None)
  ELSE IF ~isinstance(a.transformation_type, "TransformationType")
  THEN Result("ValueError", self, None)
  ELSE IF a.arch # None /\ ~isinstance(a.arch, "Architecture")
  THEN Result("ValueError", self, None)
  ELSE LET s == TransformationSite(a.pfn, Str(name), a.transformation_type, a.arch, a.ostype, a.osrelease, a.osversion, a.glibc, a.container)
       IN Result("None", [self EXCEPT !.sites = DictSet(@, name, s.val)], self)

\* add_site without the duplicate check: the new site replaces the old one.
add_site_overwriting(self, name, a) ==
  IF ~isinstance(a.transformation_type, "TransformationType")
  THEN Result("ValueError", self, None)
  ELSE IF a.arch # None /\ ~isinstance(a.arch, "Architecture")
  THEN Result("ValueError", self, None)
  ELSE LET s == TransformationSite(Str(name), a.pfn, a.transformation_type, a.arch, a.ostype, a.osrelease, a.osversion, a.glibc, a.container)
       IN Result("None", [self EXCEPT !.sites = DictSet(@, name, s.val)], self)

\* add_site that registers the name before the enums are validated.
add_site_registering_first(self, name, a) ==
  IF DictHas(self.sites, name)
  THEN Result("DuplicateError", self, None)
  ELSE LET s == TransformationSite(Str(name), a.pfn, a.transformation_type, a.arch, a.ostype, a.osrelease, a.osversion, a.glibc, a.container)
       IN IF s.exc # "None"
          THEN Result(s.exc, [self EXCEPT !.sites = DictSet(@, name, None)], None)
          ELSE Result("None", [self EXCEPT !.sites = DictSet(@, name, s.val)], self)

\* Transformation.add_site; a holds the arguments after name.
add_site(self, name, a) ==
  IF DictHas(self.sites, name)
  THEN Result("DuplicateError", self, None)
  ELSE IF ~isinstance(a.transformation_type, "TransformationType")
  THEN Result("ValueError", self, None)
  ELSE IF a.arch # None /\ ~isinstance(a.arch, "Architecture")
  THEN Result("ValueError", self, None)
  ELSE LET s == TransformationSite(Str(name), a.pfn, a.transformation_type, a.arch, a.ostype, a.osrelease, a.osversion, a.glibc, a.container)
       IN IF s.exc # "None"
          THEN Result(s.exc, self, None)
          ELSE Result("None", [self EXCEPT !.sites = DictSet(@, name, s.val)], self)

\* Transformation.get_site
get_site(self, name) ==
  IF ~DictHas(self.sites, name)
  THEN Result("NotFoundError", self, None)
  ELSE Result("None", self, DictGet(self.sites, name))

\* Transformation.has_site
has_site(self, name) == Result("None", self, Bool(DictHas(self.sites, name)))

\* remove_site that empties the sites mapping.
remove_site_clearing(self, name) ==
  IF ~DictHas(self.sites, name)
  THEN Result("NotFoundError", self, None)
  ELSE Result("None", [self EXCEPT !.sites = EmptyDict], self)

\* Transformation.remove_site
remove_site(self, name) ==
  IF ~DictHas(self.sites, name)
  THEN Result("NotFoundError", self, None)
  ELSE Result("None", [self EXCEPT !.sites = DictDel(@, name)], self)

\* Transformation.add_site_profile
add_site_profile(self, site_name, namespace, key, value) ==
  IF ~DictHas(self.sites, site_name)
  THEN Result("NotFoundError", self, None)
  ELSE LET s == DictGet(self.sites, site_name)
           p == add_profile(s.profiles, namespace, key, value)
       IN Result("None", [self EXCEPT !.sites = DictSet(@, site_name, [s EXCEPT !.profiles = p])], self)

\* add_requirement that looks for the very object, not for an equal one.
add_requirement_by_identity(h, self, r) ==
  IF r \in self.requires
  THEN Result("DuplicateError", self, None)
  ELSE Result("None", [self EXCEPT !.requires = @ \cup {r}], self)

\* Transformation.add_requirement; r is the identity of the required object in heap h.
add_requirement(h, self, r) ==
  IF SetContains(h, self.requires, r)
  THEN Result("DuplicateError", self, None)
  ELSE Result("None", [self EXCEPT !.requires = @ \cup {r}], self)

\* Transformation.has_requirement
has_requirement(h, self, r) == Result("None", self, Bool(SetContains(h, self.requires, r)))

\* Transformation.remove_requirement
remove_requirement(h, self, r) ==
  IF ~has_requirement(h, self, r).ret.value
  THEN Result("NotFoundError", self, None)
  ELSE Result("None", [self EXCEPT !.requires = SetRemove(h, @, r)], self)

\* Transformation.add_profile, inherited from ProfileMixin.
Transformation_add_profile(self, namespace, key, value) ==
  Result("None", [self EXCEPT !.profiles = add_profile(@, namespace, key, value)], self)

\* The results of a comprehension [x.__json__() for x in ...]: the list of the
\* values, or the exception of the first element that raises.
Collect(results) ==
  IF \E i \in 1..Len(results) : results[i].exc # "None"
  THEN Raise(results[CHOOSE i \in 1..Len(results) :
                        /\ results[i].exc # "None"
                        /\ \A j \in 1..(i - 1) : results[j].exc = "None"].exc)
  ELSE Ok(List([i \in 1..Len(results) |-> results[i].val]))

\* The elements of a set in the order iteration visits them (some fixed order).
RECURSIVE SetToSeq(_)
SetToSeq(s) ==
  IF s = {} THEN <<>>
  ELSE LET x == CHOOSE y \in s : TRUE IN <<x>> \o SetToSeq(s \ {x})

\* Transformation.__json__ of self in heap h; the entries are evaluated in the
\* order of the dict literal, so a site that cannot be serialized raises.
TransformationJson(h, self) ==
  LET reqs == SetToSeq(self.requires)
      sites == Collect([i \in 1..Len(self.sites) |-> SiteJson(self.sites[i].v)])
  IN IF sites.exc # "None"
     THEN Raise(sites.exc)
     ELSE Ok(filter_out_nones(
            [ namespace |-> self.namespace,
              name |-> self.name,
              version |-> self.version,
              requires |-> IF Cardinality(self.requires) > 0
                           THEN List([i \in 1..Len(reqs) |-> h[reqs[i]].name])
                           ELSE None,
              sites |-> sites.val,
              profiles |-> IF Cardinality(DOMAIN self.profiles) > 0 THEN self.profiles ELSE None,
              hooks |-> IF Cardinality(DOMAIN self.hooks) > 0 THEN self.hooks ELSE None ]))

\* --------------------------------------------------- TransformationCatalog

\* TransformationCatalog.__init__
TransformationCatalog(default_filepath) ==
  [ cls |-> "TransformationCatalog",
    default_filepath |-> default_filepath,
    transformations |-> EmptyDict,
    containers |-> EmptyDict ]

\* TransformationCatalog.has_transformation
has_transformation(self, transformation) ==
  Result("None", self, Bool(DictHas(self.transformations, transformation.key)))

\* add_transformations that validates the whole batch before it inserts anything.
add_transformations_atomic(h, self, items) ==
  IF \E i \in 1..Len(items) : ~isinstance(items[i], "Transformation")
  THEN Result("ValueError", self, None)
  ELSE IF \E i \in 1..Len(items) :
            \/ DictHas(self.transformations, h[items[i].id].key)
            \/ \E j \in 1..(i - 1) : h[items[j].id].key = h[items[i].id].key
  THEN Result("DuplicateError", self, None)
  ELSE Result("None", [self EXCEPT !.transformations = @ \o [i \in 1..Len(items) |-> [k |-> h[items[i].id].key, v |-> items[i].id]]], None)

\* TransformationCatalog.add_transformations(*items): each item is a reference
\* to an object of heap h or some other value; the loop stops at the first raise.
RECURSIVE add_transformations(_, _, _)
add_transformations(h, self, items) ==
  IF items = <<>>
  THEN Result("None", self, None)
  ELSE LET tr == Head(items)
       IN IF ~isinstance(tr, "Transformation")
          THEN Result("ValueError", self, None)
          ELSE IF has_transformation(self, h[tr.id]).ret.value
          THEN Result("DuplicateError", self, None)
          ELSE add_transformations(h, [self EXCEPT !.transformations = DictSet(@, h[tr.id].key, tr.id)], Tail(items))

\* TransformationCatalog.has_container
has_container(self, name) == Result("None", self, Bool(DictHas(self.containers, name)))

\* add_container that validates the type before it looks for a duplicate.
add_container_validating_first(self, name, a) ==
  IF ~isinstance(a.container_type, "ContainerType")
  THEN Result("ValueError", self, None)
  ELSE IF DictHas(self.containers, name)
  THEN Result("DuplicateError", self, None)
  ELSE Result("None", [self EXCEPT !.containers = DictSet(@, name, Container(Str(name), a.container_type, a.image, a.mount, a.image_site).val)], self)

\* TransformationCatalog.add_container; a holds the arguments after name.
add_container(self, name, a) ==
  IF has_container(self, name).ret.value
  THEN Result("DuplicateError", self, None)
  ELSE IF ~isinstance(a.container_type, "ContainerType")
  THEN Result("ValueError", self, None)
  ELSE LET c == Container(Str(name), a.container_type, a.image, a.mount, a.image_site)
       IN IF c.exc # "None"
          THEN Result(c.exc, self, None)
          ELSE Result("None", [self EXCEPT !.containers = DictSet(@, name, c.val)], self)

\* TransformationCatalog.get_container
get_container(self, name) ==
  IF ~has_container(self, name).ret.value
  THEN Result("NotFoundError", self, None)
  ELSE Result("None", self, DictGet(self.containers, name))

\* TransformationCatalog.remove_container
remove_container(self, name) ==
  IF ~has_container(self, name).ret.value
  THEN Result("NotFoundError", self, None)
  ELSE Result("None", [self EXCEPT !.containers = DictDel(@, name)], self)

\* [c.__json__() for key, c in self.containers]: iterating the dict yields its
\* keys, the container names.  Unpacking a str into (key, c) raises ValueError
\* unless it has two characters, and then c is a str, which has no __json__.
ContainersJson(containers) ==
  IF Len(containers) = 0
  THEN Ok(List(<<>>))
  ELSE IF Len(containers[1].k) # 2
  THEN Raise("ValueError")
  ELSE Raise("AttributeError")

\* TransformationCatalog.__json__ of self, whose transformations live in heap h.
CatalogJson(h, self) ==
  LET ts == Collect([i \in 1..Len(self.transformations) |->
                       TransformationJson(h, h[self.transformations[i].v])])
      cs == IF Len(self.containers) > 0 THEN ContainersJson(self.containers) ELSE Ok(None)
  IN IF ts.exc # "None" THEN Raise(ts.exc)
     ELSE IF cs.exc # "None" THEN Raise(cs.exc)
     ELSE Ok(filter_out_nones(
            [ pegasus |-> Str(PEGASUS_VERSION),
              transformations |-> ts.val,
              containers |-> cs.val ]))

\* open(path, "w"): a path that is None raises TypeError.
open(path) == IF path = None THEN Raise("TypeError") ELSE Ok(path)

\* TransformationCatalog.write: exc, the path opened for writing (None when none
\* was) and the document dumped into it (None when none was).
write(h, self, non_default_filepath, file_format) ==
  IF ~isinstance(file_format, "FileFormat")
  THEN [exc |-> "ValueError", opened |-> None, doc |-> None]
  ELSE LET path == IF non_default_filepath # Str("")
                   THEN non_default_filepath
                   ELSE IF file_format = Member(FileFormat, "YAML")
                   THEN Str(self.default_filepath.value \o "." \o Member(FileFormat, "YAML").value)
                   ELSE IF file_format = Member(FileFormat, "JSON")
                   THEN Str(self.default_filepath.value \o "." \o Member(FileFormat, "JSON").value)
                   ELSE self.default_filepath
           file == open(path)
           doc == CatalogJson(h, self)
       IN IF file.exc # "None"
          THEN [exc |-> file.exc, opened |-> None, doc |-> None]
          ELSE IF doc.exc # "None"
          THEN [exc |-> doc.exc, opened |-> file.val, doc |-> None]
          ELSE [exc |-> "None", opened |-> file.val, doc |-> doc.val]

\* ------------------------------------------------------------------ inputs

SiteNames == {"local", "condor"}

ContainerNames == {"c1", "web"}

\* The (name, namespace, version) arguments the client's Transformations are built with.
Keys ==
  { <<Str("t"), None, None>>,
    <<Str("t"), Str("ns"), Str("1.0")>> }

\* The Transformation objects whose sites the client edits.
Subjects == {1}

\* Values that are not members of the enum asked for.
NotAType == Str("stageable")

NotAnArch == Str("x86_64")

NotAContainerType == Str("docker")

SiteArgs(types, archs, ostypes, others) ==
  [ pfn : {Str("/bin/t")},
    transformation_type : types,
    arch : archs,
    ostype : ostypes,
    osrelease : others,
    osversion : others,
    glibc : others,
    container : others ]

\* Every combination of the optional arguments present or absent, valid or not.
AllSiteArgs ==
  SiteArgs(TransformationType \cup {NotAType}, {None, NotAnArch} \cup Architecture, {None, Str("linux")}, {None, Str("7")})

\* A stageable site without arch, an installed one with arch and OS type, and
\* the same with a type or an arch that is no enum member.
FewSiteArgs ==
  SiteArgs({Member(TransformationType, "STAGEABLE")}, {None}, {None}, {None})
  \cup SiteArgs({Member(TransformationType, "INSTALLED")}, Architecture, {Str("linux")}, {None})
  \cup SiteArgs({NotAType}, Architecture, {None}, {None})
  \cup SiteArgs({Member(TransformationType, "INSTALLED")}, {NotAnArch}, {None}, {None})

ContainerArgs ==
  { [container_type |-> Member(ContainerType, "DOCKER"), image |-> Str("img"), mount |-> Str("/m"), image_site |-> None],
    [container_type |-> Member(ContainerType, "SINGULARITY"), image |-> Str("img2"), mount |-> Str("/m2"), image_site |-> Str("local")],
    [container_type |-> NotAContainerType, image |-> Str("img3"), mount |-> Str("/m3"), image_site |-> None] }

\* Argument lists of add_transformations: references to the client's objects
\* and one value that is no Transformation.
Items == { Ref(t) : t \in TrIds } \cup { Str("t") }

Batches == UNION { [1..n -> Items] : n \in 0..MaxBatch }

Filepaths == { Str(""), None, Str("out.yml") }

Formats == FileFormat \cup { Str("yml") }

\* ------------------------------------------------------------------- state

\* The call the client made last and how it ended.
Call(op, self, name, arg, exc, ret) ==
  [op |-> op, self |-> self, name |-> name, arg |-> arg, exc |-> exc, ret |-> ret]

\* What a fluent method hands back: self when it returned, nothing when it raised.
Returned(r, ref) == IF r.exc = "None" THEN ref ELSE None

\* The arguments of add_site that it validates.
Checked(a) == [transformation_type |-> a.transformation_type, arch |-> a.arch]

TypeOK ==
  /\ DOMAIN trs = TrIds
  /\ \A t \in TrIds : trs[t].key \in Keys
  /\ tc.cls = "TransformationCatalog"

\* The client has built its Transformation objects and an empty catalog.
Init ==
  /\ trs \in [TrIds -> { Transformation(k[1], k[2], k[3]) : k \in Keys }]
  /\ tc = TransformationCatalog(Str("TransformationCatalog"))
  /\ last = Call("init", 0, "", None, "None", None)

\* The same, every Transformation built with the name alone.
InitPlain ==
  /\ trs = [t \in TrIds |-> Transformation(Str("t"), None, None)]
  /\ tc = TransformationCatalog(Str("TransformationCatalog"))
  /\ last = Call("init", 0, "", None, "None", None)

\* ----------------------------------------------- calls on a Transformation

AddSite(t, name, a) ==
  LET r == add_site(trs[t], name, a)
  IN /\ trs' = [trs EXCEPT ![t] = r.self]
     /\ last' = Call("add_site", t, name, Checked(a), r.exc, Returned(r, Ref(t)))
     /\ UNCHANGED tc

GetSite(t, name) ==
  LET r == get_site(trs[t], name)
  IN /\ last' = Call("get_site", t, name, None, r.exc, r.ret)
     /\ UNCHANGED <<trs, tc>>

HasSite(t, name) ==
  LET r == has_site(trs[t], name)
  IN /\ last' = Call("has_site", t, name, None, r.exc, r.ret)
     /\ UNCHANGED <<trs, tc>>

RemoveSite(t, name) ==
  LET r == remove_site(trs[t], name)
  IN /\ trs' = [trs EXCEPT ![t] = r.self]
     /\ last' = Call("remove_site", t, name, None, r.exc, Returned(r, Ref(t)))
     /\ UNCHANGED tc

AddSiteProfile(t, site_name, namespace, key, value) ==
  LET r == add_site_profile(trs[t], site_name, namespace, key, value)
  IN /\ trs' = [trs EXCEPT ![t] = r.self]
     /\ last' = Call("add_site_profile", t, site_name, Str(value), r.exc, Returned(r, Ref(t)))
     /\ UNCHANGED tc

\* get_site(name).__json__()
SiteToJson(t, name) ==
  /\ DictHas(trs[t].sites, name)
  /\ LET r == SiteJson(DictGet(trs[t].sites, name))
     IN last' = Call("site_json", t, name, None, r.exc, IF r.exc = "None" THEN r.val ELSE None)
  /\ UNCHANGED <<trs, tc>>

AddRequirement(t, r) ==
  LET res == add_requirement(trs, trs[t], r)
  IN /\ trs' = [trs EXCEPT ![t] = res.self]
     /\ last' = Call("add_requirement", t, "", Ref(r), res.exc, Returned(res, Ref(t)))
     /\ UNCHANGED tc

HasRequirement(t, r) ==
  LET res == has_requirement(trs, trs[t], r)
  IN /\ last' = Call("has_requirement", t, "", Ref(r), res.exc, res.ret)
     /\ UNCHANGED <<trs, tc>>

RemoveRequirement(t, r) ==
  LET res == remove_requirement(trs, trs[t], r)
  IN /\ trs' = [trs EXCEPT ![t] = res.self]
     /\ last' = Call("remove_requirement", t, "", Ref(r), res.exc, Returned(res, Ref(t)))
     /\ UNCHANGED tc

\* trs[a] == trs[b]
Eq(a, b) ==
  /\ last' = Call("__eq__", a, "", Ref(b), "None", Transformation__eq__(trs[a], trs[b]))
  /\ UNCHANGED <<trs, tc>>

\* hash(trs[a])
Hash(a) ==
  /\ last' = Call("__hash__", a, "", None, "None", [cls |-> "int", value |-> Transformation__hash__(trs[a])])
  /\ UNCHANGED <<trs, tc>>

AddProfile(t, namespace, key, value) ==
  LET r == Transformation_add_profile(trs[t], namespace, key, value)
  IN /\ trs' = [trs EXCEPT ![t] = r.self]
     /\ last' = Call("add_profile", t, namespace, Str(value), r.exc, Returned(r, Ref(t)))
     /\ UNCHANGED tc

\* trs[t].__json__()
TransformationToJson(t) ==
  LET r == TransformationJson(trs, trs[t])
  IN /\ last' = Call("transformation_json", t, "", None, r.exc, IF r.exc = "None" THEN r.val ELSE None)
     /\ UNCHANGED <<trs, tc>>

\* ---------------------------------------------------- calls on the catalog

AddTransformations(items) ==
  LET r == add_transformations(trs, tc, items)
  IN /\ tc' = r.self
     /\ last' = Call("add_transformations", 0, "", List(items), r.exc, None)
     /\ UNCHANGED trs

HasTransformation(t) ==
  LET r == has_transformation(tc, trs[t])
  IN /\ last' = Call("has_transformation", 0, "", Ref(t), r.exc, r.ret)
     /\ UNCHANGED <<trs, tc>>

AddContainer(name, a) ==
  LET r == add_container(tc, name, a)
  IN /\ tc' = r.self
     /\ last' = Call("add_container", 0, name, a, r.exc, Returned(r, [cls |-> "TransformationCatalog"]))
     /\ UNCHANGED trs

HasContainer(name) ==
  LET r == has_container(tc, name)
  IN /\ last' = Call("has_container", 0, name, None, r.exc, r.ret)
     /\ UNCHANGED <<trs, tc>>

GetContainer(name) ==
  LET r == get_container(tc, name)
  IN /\ last' = Call("get_container", 0, name, None, r.exc, r.ret)
     /\ UNCHANGED <<trs, tc>>

RemoveContainer(name) ==
  LET r == remove_container(tc, name)
  IN /\ tc' = r.self
     /\ last' = Call("remove_container", 0, name, None, r.exc, Returned(r, [cls |-> "TransformationCatalog"]))
     /\ UNCHANGED trs

Write(non_default_filepath, file_format) ==
  LET r == write(trs, tc, non_default_filepath, file_format)
  IN /\ last' = Call("write", 0, "", [non_default_filepath |-> non_default_filepath, file_format |-> file_format], r.exc, [opened |-> r.opened, doc |-> r.doc])
     /\ UNCHANGED <<trs, tc>>

\* tc.__json__()
CatalogToJson ==
  LET r == CatalogJson(trs, tc)
  IN /\ last' = Call("catalog_json", 0, "", None, r.exc, IF r.exc = "None" THEN r.val ELSE None)
     /\ UNCHANGED <<trs, tc>>

\* ---------------------------------------------------------- specifications

\* One site name, every combination of add_site's arguments.
NextSite ==
  \/ \E t \in Subjects, a \in AllSiteArgs : AddSite(t, "local", a)
  \/ \E t \in Subjects : RemoveSite(t, "local")
  \/ \E t \in Subjects : HasSite(t, "local")
  \/ \E t \in Subjects : GetSite(t, "local")
  \/ \E t \in Subjects : SiteToJson(t, "local")

SpecSite == InitPlain /\ [][NextSite]_vars

\* Sites of one transformation and containers of the catalog.
NextCrud ==
  \/ \E t \in Subjects, n \in SiteNames, a \in FewSiteArgs : AddSite(t, n, a)
  \/ \E t \in Subjects, n \in SiteNames : RemoveSite(t, n)
  \/ \E t \in Subjects, n \in SiteNames : HasSite(t, n)
  \/ \E t \in Subjects, n \in SiteNames : GetSite(t, n)
  \/ \E n \in ContainerNames, a \in ContainerArgs : AddContainer(n, a)
  \/ \E n \in ContainerNames : RemoveContainer(n)
  \/ \E n \in ContainerNames : HasContainer(n)
  \/ \E n \in ContainerNames : GetContainer(n)

SpecCrud == InitPlain /\ [][NextCrud]_vars

\* Requirement edges between all objects.
NextReq ==
  \/ \E t \in TrIds, r \in TrIds : AddRequirement(t, r)
  \/ \E t \in TrIds, r \in TrIds : HasRequirement(t, r)
  \/ \E t \in TrIds, r \in TrIds : RemoveRequirement(t, r)

SpecReq == Init /\ [][NextReq]_vars

\* A site without arch or OS attributes, as add_site is given it most often.
PlainSite == CHOOSE a \in FewSiteArgs : a.transformation_type \in TransformationType /\ a.arch = None

\* Equality and hash of every object, with its sites, site profiles and
\* requirements changing underneath.
NextEq ==
  \/ \E a \in TrIds, b \in TrIds : Eq(a, b)
  \/ \E a \in TrIds : Hash(a)
  \/ \E t \in TrIds : AddSite(t, "local", PlainSite)
  \/ \E t \in TrIds : RemoveSite(t, "local")
  \/ \E t \in TrIds : AddSiteProfile(t, "local", "env", "PATH", "/bin")
  \/ \E t \in TrIds, r \in Subjects : AddRequirement(t, r)
  \/ \E t \in TrIds, r \in Subjects : RemoveRequirement(t, r)

SpecEq == Init /\ [][NextEq]_vars

\* Registration of transformations in batches.
NextBatch ==
  \/ \E items \in Batches : AddTransformations(items)
  \/ \E t \in TrIds : HasTransformation(t)

SpecBatch == Init /\ [][NextBatch]_vars

\* Containers of a catalog that also registers transformations one at a time.
NextCat ==
  \/ \E t \in TrIds : AddTransformations(<<Ref(t)>>)
  \/ \E n \in ContainerNames, a \in ContainerArgs : AddContainer(n, a)
  \/ \E n \in ContainerNames : RemoveContainer(n)
  \/ \E n \in ContainerNames : HasContainer(n)
  \/ \E n \in ContainerNames : GetContainer(n)

SpecCat == Init /\ [][NextCat]_vars

\* Serialization of the catalog and the file it is written to.
NextDoc ==
  \/ \E t \in TrIds : AddTransformations(<<Ref(t)>>)
  \/ \E n \in ContainerNames, a \in ContainerArgs : AddContainer(n, a)
  \/ \E n \in ContainerNames : RemoveContainer(n)
  \/ \E p \in Filepaths, f \in Formats : Write(p, f)
  \/ CatalogToJson

SpecDoc == Init /\ [][NextDoc]_vars

\* The sites a transformation is given before it is serialized: one without
\* arch, one with arch and OS type.
ValidFewSiteArgs == { a \in FewSiteArgs : a.transformation_type \in TransformationType /\ a.arch \in {None} \cup Architecture }

\* Serialization of transformations with sites, requirements and profiles.
NextTrJson ==
  \/ \E t \in TrIds, a \in ValidFewSiteArgs : AddSite(t, "local", a)
  \/ \E t \in TrIds : RemoveSite(t, "local")
  \/ \E t \in TrIds, r \in TrIds : AddRequirement(t, r)
  \/ \E t \in TrIds, r \in TrIds : RemoveRequirement(t, r)
  \/ \E t \in TrIds : AddProfile(t, "env", "PATH", "/bin")
  \/ \E t \in TrIds : TransformationToJson(t)

SpecTrJson == Init /\ [][NextTrJson]_vars

\* Sites and site profiles of one transformation, registration of single
\* items and containers of the catalog, calls that fail included.
NextStore ==
  \/ \E t \in Subjects, n \in SiteNames, a \in {PlainSite} \cup {x \in FewSiteArgs : x.transformation_type = NotAType} : AddSite(t, n, a)
  \/ \E t \in Subjects, n \in SiteNames : RemoveSite(t, n)
  \/ \E t \in Subjects, n \in SiteNames : AddSiteProfile(t, n, "env", "PATH", "/bin")
  \/ \E i \in Items : AddTransformations(<<i>>)
  \/ \E n \in ContainerNames, a \in {x \in ContainerArgs : x.image_site = None} : AddContainer(n, a)
  \/ \E n \in ContainerNames : RemoveContainer(n)

SpecStore == Init /\ [][NextStore]_vars

\* Every call on every object; each specification above is a part of this one.
Next == NextSite \/ NextCrud \/ NextReq \/ NextEq \/ NextBatch \/ NextCat \/ NextDoc \/ NextTrJson \/ NextStore

Spec == Init /\ [][Next]_vars

\* ------------------------------------------------------------------ claims

\* The site stored under name n of transformation t.
SiteOf(t, n) == DictGet(trs[t].sites, n)

\* The keys a serialized site must have: name, pfn, type and the attributes
\* that were given.
GivenKeys(s) ==
  {"name", "pfn", "type"}
  \cup (IF s.arch \in {Unset, None} THEN {} ELSE {"arch"})
  \cup (IF s.os_type = None THEN {} ELSE {"os.type"})
  \cup (IF s.os_release = None THEN {} ELSE {"os.release"})
  \cup (IF s.os_version = None THEN {} ELSE {"os.version"})
  \cup (IF s.glibc = None THEN {} ELSE {"glibc"})
  \cup (IF s.container = None THEN {} ELSE {"container"})
  \cup (IF DOMAIN s.profiles = {} THEN {} ELSE {"profiles"})

\* C1: serializing a site built with any combination of the optional fields,
\* arch absent included, raises nothing and yields name, pfn, type and exactly
\* the optional fields that were given.
C1_SiteSerializes ==
  last.op = "site_json" =>
    /\ last.exc = "None"
    /\ DOMAIN last.ret = GivenKeys(SiteOf(last.self, last.name))

\* The arguments of an add_site call fail validation.
InvalidSiteArgs(a) ==
  \/ a.transformation_type \notin TransformationType
  \/ a.arch # None /\ a.arch \notin Architecture

\* C3: add_site with a site name already present raises DuplicateError and
\* changes nothing, whatever the other arguments are.
C3_DuplicateSite ==
  [][ (last'.op = "add_site" /\ DictHas(trs[last'.self].sites, last'.name))
        => (last'.exc = "DuplicateError" /\ trs' = trs /\ tc' = tc) ]_vars

\* C3 happens: a duplicate add_site whose type is no TransformationType was
\* refused as a duplicate, and the stored site is still the installed one.
C3_Witness ==
  /\ last.op = "add_site"
  /\ last.exc = "DuplicateError"
  /\ last.arg.transformation_type = NotAType
  /\ SiteOf(last.self, last.name).transformation_type = Str("installed")

\* C7: add_site with a new name and a type or arch that is no enum member
\* raises ValueError and registers nothing.
C7_InvalidSite ==
  [][ (/\ last'.op = "add_site"
       /\ ~DictHas(trs[last'.self].sites, last'.name)
       /\ InvalidSiteArgs(last'.arg))
        => (/\ last'.exc = "ValueError"
            /\ trs' = trs
            /\ has_site(trs'[last'.self], last'.name).ret = Bool(FALSE)) ]_vars

\* C7 happens: an add_site with a valid type and an invalid arch raised
\* ValueError and the name is not registered.
C7_Witness ==
  /\ last.op = "add_site"
  /\ last.exc = "ValueError"
  /\ last.arg.transformation_type \in TransformationType
  /\ last.arg.arch = NotAnArch
  /\ ~DictHas(trs[last.self].sites, last.name)

\* C2: serializing the catalog raises nothing and yields pegasus = "5.0", one
\* entry per registered transformation and one entry per registered container,
\* the containers key being present iff there is a container.
C2_CatalogSerializes ==
  last.op = "catalog_json" =>
    /\ last.exc = "None"
    /\ last.ret.pegasus = Str("5.0")
    /\ Len(last.ret.transformations.items) = Len(tc.transformations)
    /\ ("containers" \in DOMAIN last.ret) <=> (Len(tc.containers) > 0)
    /\ ("containers" \in DOMAIN last.ret) => Len(last.ret.containers.items) = Len(tc.containers)

\* The first item of an argument list that add_transformations must refuse in
\* catalog c: no Transformation, or a key that c holds or an earlier item has;
\* 0 when there is none.
FirstRefused(c, items) ==
  LET refused(i) ==
        \/ items[i].cls # "Transformation"
        \/ \E e \in 1..Len(c.transformations) : c.transformations[e].k = trs[items[i].id].key
        \/ \E j \in 1..(i - 1) : items[j].cls = "Transformation" /\ trs[items[j].id].key = trs[items[i].id].key
      bad == { i \in 1..Len(items) : refused(i) }
  IN IF bad = {} THEN 0 ELSE CHOOSE i \in bad : \A j \in bad : i <= j

\* The entries the first n items add to a catalog.
Registered(items, n) == [i \in 1..n |-> [k |-> trs[items[i].id].key, v |-> items[i].id]]

\* C4: add_transformations registers its items in order up to the first one
\* that is no Transformation (ValueError) or whose key is taken
\* (DuplicateError); the items before it stay registered, it and the later ones
\* are not, and the earlier entries are unchanged.
C4_BatchNotAtomic ==
  [][ last'.op = "add_transformations" =>
        LET items == last'.arg.items
            i == FirstRefused(tc, items)
        IN /\ trs' = trs
           /\ tc'.containers = tc.containers
           /\ IF i = 0
              THEN /\ last'.exc = "None"
                   /\ tc'.transformations = tc.transformations \o Registered(items, Len(items))
              ELSE /\ last'.exc = (IF items[i].cls # "Transformation" THEN "ValueError" ELSE "DuplicateError")
                   /\ tc'.transformations = tc.transformations \o Registered(items, i - 1) ]_vars

\* C4 happens: a call with two items raised DuplicateError at the second and
\* left the first as the only registered transformation.
C4_Witness ==
  /\ last.op = "add_transformations"
  /\ last.exc = "DuplicateError"
  /\ Len(last.arg.items) = MaxBatch
  /\ Len(tc.transformations) = 1
  /\ tc.transformations[1].v = last.arg.items[1].id
  /\ last.arg.items[1] # last.arg.items[Len(last.arg.items)]

\* C9: add_container raises DuplicateError for a taken name before it looks at
\* the type, ValueError for a free name and a type that is no ContainerType,
\* and otherwise registers exactly the new container; nothing else changes.
C9_AddContainer ==
  [][ last'.op = "add_container" =>
        LET n == last'.name
            a == last'.arg
        IN /\ trs' = trs
           /\ tc'.transformations = tc.transformations
           /\ IF \E e \in 1..Len(tc.containers) : tc.containers[e].k = n
              THEN last'.exc = "DuplicateError" /\ tc'.containers = tc.containers
              ELSE IF a.container_type \notin ContainerType
              THEN last'.exc = "ValueError" /\ tc'.containers = tc.containers
              ELSE /\ last'.exc = "None"
                   /\ tc'.containers = Append(tc.containers,
                        [k |-> n,
                         v |-> [cls |-> "Container", name |-> Str(n),
                                container_type |-> Str(a.container_type.value),
                                image |-> a.image, mount |-> a.mount,
                                image_site |-> a.image_site, profiles |-> <<>>]]) ]_vars

\* C9 happens: a second add_container under a taken name, with a type that is
\* no ContainerType, was refused as a duplicate while another container and a
\* transformation are registered.
C9_Witness ==
  /\ last.op = "add_container"
  /\ last.exc = "DuplicateError"
  /\ last.arg.container_type = NotAContainerType
  /\ Len(tc.containers) = 2
  /\ Len(tc.transformations) > 0

\* C10: write opens default_filepath + "." + the format's extension when the
\* filepath argument is "" or None, the explicit path verbatim otherwise, and
\* nothing when the format is no FileFormat (ValueError).
C10_WritePath ==
  last.op = "write" =>
    LET p == last.arg.non_default_filepath
        f == last.arg.file_format
    IN IF f \notin FileFormat
       THEN last.exc = "ValueError" /\ last.ret.opened = None
       ELSE IF p \in {Str(""), None}
       THEN last.ret.opened = Str(tc.default_filepath.value \o "." \o f.value)
       ELSE last.ret.opened = p

\* The (name, namespace, version) of object t.
KeyOf(t) == <<trs[t].name, trs[t].namespace, trs[t].version>>

\* The objects in the requires set of t that have the key of r.
RequiredLike(t, r) == { o \in trs[t].requires : KeyOf(o) = KeyOf(r) }

\* C5: add_requirement(r) raises DuplicateError and changes nothing when an
\* object with r's key is required already (r itself or another object), else
\* adds r; remove_requirement(r) raises NotFoundError and changes nothing when
\* none is, else removes it so that has_requirement(r) is False.
C5_RequirementsByKey ==
  [][ LET t == last'.self
          r == last'.arg.id
      IN /\ last'.op = "add_requirement" =>
              /\ tc' = tc
              /\ IF RequiredLike(t, r) # {}
                 THEN last'.exc = "DuplicateError" /\ trs' = trs
                 ELSE last'.exc = "None" /\ trs' = [trs EXCEPT ![t].requires = @ \cup {r}]
         /\ last'.op = "remove_requirement" =>
              /\ tc' = tc
              /\ IF RequiredLike(t, r) = {}
                 THEN last'.exc = "NotFoundError" /\ trs' = trs
                 ELSE /\ last'.exc = "None"
                      /\ trs' = [trs EXCEPT ![t].requires = @ \ RequiredLike(t, r)]
                      /\ has_requirement(trs', trs'[t], r).ret = Bool(FALSE)
         /\ last'.op = "has_requirement" =>
              last'.ret = Bool(RequiredLike(t, r) # {}) ]_vars

\* C5 happens: add_requirement of an object that is not itself required, but
\* has the key of one that is, raised DuplicateError.
C5_Witness ==
  /\ last.op = "add_requirement"
  /\ last.exc = "DuplicateError"
  /\ last.arg.id \notin trs[last.self].requires
  /\ RequiredLike(last.self, last.arg.id) # {}

\* C6: two Transformations are equal iff their (name, namespace, version) are
\* equal, and equal ones hash equally, whatever their sites, site profiles and
\* requirements have become.
C6_EqualIffKeys ==
  /\ \A a, b \in TrIds :
       /\ Transformation__eq__(trs[a], trs[b]) = Bool(KeyOf(a) = KeyOf(b))
       /\ KeyOf(a) = KeyOf(b) => Transformation__hash__(trs[a]) = Transformation__hash__(trs[b])
  /\ last.op = "__eq__" => last.ret = Bool(KeyOf(last.self) = KeyOf(last.arg.id))
  /\ last.op = "__hash__" =>
       \A b \in TrIds : KeyOf(b) = KeyOf(last.self) => last.ret.value = Transformation__hash__(trs[b])

\* C6 happens: two different objects compared equal while one has a site with
\* a profile and a requirement and the other has neither.
C6_Witness ==
  /\ last.op = "__eq__"
  /\ last.self # last.arg.id
  /\ last.ret = Bool(TRUE)
  /\ Len(trs[last.self].sites) = 1
  /\ trs[last.self].sites[1].v.profiles # <<>>
  /\ trs[last.self].requires # {}
  /\ Len(trs[last.arg.id].sites) = 0
  /\ trs[last.arg.id].requires = {}

\* The entry an insertion-ordered dict holds under key k, <<>> when it holds none.
Entry(d, k) == SelectSeq(d, LAMBDA e : e.k = k)

\* C8, for the sites of a transformation: remove_site of a present name
\* deletes that entry and no other, of an absent name raises NotFoundError and
\* changes nothing; has_site and get_site answer from the mapping, get_site of
\* an absent name raising NotFoundError; an absent name stays absent until
\* add_site adds it, and add_site of an absent name never raises DuplicateError.
C8_Sites ==
  LET t == last'.self
      n == last'.name
  IN /\ last'.op = "remove_site" =>
          IF Entry(trs[t].sites, n) # <<>>
          THEN /\ last'.exc = "None"
               /\ Entry(trs'[t].sites, n) = <<>>
               /\ \A m \in SiteNames \ {n} : Entry(trs'[t].sites, m) = Entry(trs[t].sites, m)
          ELSE last'.exc = "NotFoundError" /\ trs' = trs
     /\ last'.op = "has_site" => last'.ret = Bool(Entry(trs[t].sites, n) # <<>>)
     /\ last'.op = "get_site" =>
          IF Entry(trs[t].sites, n) = <<>>
          THEN last'.exc = "NotFoundError"
          ELSE last'.exc = "None" /\ last'.ret = Entry(trs[t].sites, n)[1].v
     /\ (last'.op = "add_site" /\ Entry(trs[t].sites, n) = <<>>) =>
          /\ last'.exc # "DuplicateError"
          /\ ~InvalidSiteArgs(last'.arg) => (last'.exc = "None" /\ Entry(trs'[t].sites, n) # <<>>)
     /\ \A u \in TrIds, m \in SiteNames :
          (Entry(trs[u].sites, m) = <<>> /\ Entry(trs'[u].sites, m) # <<>>)
            => (last'.op = "add_site" /\ u = t /\ m = n /\ last'.exc = "None")

\* C8, for the containers of a catalog, in the same words.
C8_Containers ==
  LET n == last'.name
  IN /\ last'.op = "remove_container" =>
          IF Entry(tc.containers, n) # <<>>
          THEN /\ last'.exc = "None"
               /\ Entry(tc'.containers, n) = <<>>
               /\ \A m \in ContainerNames \ {n} : Entry(tc'.containers, m) = Entry(tc.containers, m)
          ELSE last'.exc = "NotFoundError" /\ tc' = tc
     /\ last'.op = "has_container" => last'.ret = Bool(Entry(tc.containers, n) # <<>>)
     /\ last'.op = "get_container" =>
          IF Entry(tc.containers, n) = <<>>
          THEN last'.exc = "NotFoundError"
          ELSE last'.exc = "None" /\ last'.ret = Entry(tc.containers, n)[1].v
     /\ (last'.op = "add_container" /\ Entry(tc.containers, n) = <<>>) =>
          /\ last'.exc # "DuplicateError"
          /\ last'.arg.container_type \in ContainerType => (last'.exc = "None" /\ Entry(tc'.containers, n) # <<>>)
     /\ \A m \in ContainerNames :
          (Entry(tc.containers, m) = <<>> /\ Entry(tc'.containers, m) # <<>>)
            => (last'.op = "add_container" /\ m = n /\ last'.exc = "None")

\* C8: after a successful remove_site / remove_container of n, has_ is False
\* and get_ raises NotFoundError until n is added again, which then succeeds;
\* removing an absent name raises NotFoundError and changes nothing; removing
\* one name never changes the entries under other names.
C8_RemoveThenAbsent == [][C8_Sites /\ C8_Containers]_vars

\* C8 happens: remove_site succeeded on a transformation with two sites and
\* the other site is still there, with a container registered as well.
C8_Witness ==
  /\ last.op = "remove_site"
  /\ last.exc = "None"
  /\ Len(trs[last.self].sites) = 1
  /\ Len(tc.containers) > 0

\* The keys a serialized transformation must have.
TransformationKeys(t) ==
  {"name", "sites"}
  \cup (IF trs[t].namespace = None THEN {} ELSE {"namespace"})
  \cup (IF trs[t].version = None THEN {} ELSE {"version"})
  \cup (IF trs[t].requires = {} THEN {} ELSE {"requires"})
  \cup (IF DOMAIN trs[t].profiles = {} THEN {} ELSE {"profiles"})
  \cup (IF DOMAIN trs[t].hooks = {} THEN {} ELSE {"hooks"})

\* C11: serializing a Transformation raises nothing and yields name and sites
\* always, namespace and version iff not None, requires iff a transformation is
\* required and then one name per required transformation, profiles and hooks
\* iff non-empty.
C11_TransformationSerializes ==
  last.op = "transformation_json" =>
    LET t == last.self
    IN /\ last.exc = "None"
       /\ DOMAIN last.ret = TransformationKeys(t)
       /\ last.ret.name = trs[t].name
       /\ Len(last.ret.sites.items) = Len(trs[t].sites)
       /\ trs[t].requires # {} =>
            /\ Len(last.ret.requires.items) = Cardinality(trs[t].requires)
            /\ \A r \in trs[t].requires :
                 \E i \in 1..Len(last.ret.requires.items) : last.ret.requires.items[i] = trs[r].name
            /\ \A i \in 1..Len(last.ret.requires.items) : last.ret.requires.items[i].cls = "str"

\* No two entries of an insertion-ordered dict have the same key.
UniqueKeys(d) == \A i, j \in 1..Len(d) : d[i].k = d[j].k => i = j

\* C12: every site stored under name n has name n, every container stored
\* under name n has name n, every transformation stored under key k has
\* (name, namespace, version) = k; so no two sites of a transformation, no two
\* containers and no two transformations of a catalog share an identity.
C12_StoredUnderOwnIdentity ==
  /\ \A t \in TrIds :
       /\ \A i \in 1..Len(trs[t].sites) :
            /\ trs[t].sites[i].v.cls = "TransformationSite"
            /\ trs[t].sites[i].v.name = Str(trs[t].sites[i].k)
       /\ UniqueKeys(trs[t].sites)
       /\ \A i, j \in 1..Len(trs[t].sites) :
            trs[t].sites[i].v.name = trs[t].sites[j].v.name => i = j
  /\ \A i \in 1..Len(tc.containers) :
       /\ tc.containers[i].v.cls = "Container"
       /\ tc.containers[i].v.name = Str(tc.containers[i].k)
  /\ UniqueKeys(tc.containers)
  /\ \A i, j \in 1..Len(tc.containers) :
       tc.containers[i].v.name = tc.containers[j].v.name => i = j
  /\ \A i \in 1..Len(tc.transformations) :
       /\ tc.transformations[i].v \in TrIds
       /\ tc.transformations[i].k = KeyOf(tc.transformations[i].v)
  /\ UniqueKeys(tc.transformations)
  /\ \A i, j \in 1..Len(tc.transformations) :
       KeyOf(tc.transformations[i].v) = KeyOf(tc.transformations[j].v) => i = j

\* C12 happens: a transformation holds two sites, one with a profile, the
\* catalog holds two containers and two transformations, and the last call
\* failed.
C12_Witness ==
  /\ \E t \in TrIds :
       /\ Len(trs[t].sites) = 2
       /\ \E i \in 1..2 : trs[t].sites[i].v.profiles # <<>>
  /\ Len(tc.containers) = 2
  /\ Len(tc.transformations) = 2
  /\ last.exc # "None"

====
